---- MODULE Spec2Model ----
(***************************************************************************)
(* The realtime voice-call pipeline of the VoiceCall component             *)
(* (apps/web/src/app/dashboard/page.tsx, lines 167-640): the call session  *)
(* controller, the capture encoder, the protocol event dispatcher and the  *)
(* playback queue, as one event-driven state machine.  Every callback of   *)
(* the component is one action; the browser (microphone prompt, audio      *)
(* context, WebSocket, timers) is the environment.                         *)
(*                                                                         *)
(* Three smaller machines share the module, each with its own              *)
(* specification: the PCM conversion of the capture encoder and of the     *)
(* playback decode step (SpecCodec), the authentication service of the API *)
(* (SpecAuth) and its conversation service on PostgreSQL (SpecConv).       *)
(***************************************************************************)
EXTENDS Integers, Sequences, FiniteSets, TLC

\* ------------------------------------------------------------------ bounds
\* inbound messages of a session whose traffic is of one family (chunk ids
\* are 1..MaxMsgs)
MaxMsgs == 3
\* inbound messages of a session whose traffic mixes the families
MaxMixed == 2
\* inbound `ping` events among them
MaxPings == 1
\* capture blocks delivered by the script processor
MaxFrames == 1
\* failures of the output device while a chunk is started
MaxErrors == 1
\* input samples are the multiples of 1/SampleSteps
SampleSteps == 1000
\* register and googleAuth calls that are between their SELECT and their
\* INSERT at the same time
MaxPending == 2
\* entries of one voice transcript
MaxEntries == 2
\* transactions that write messages
MaxTx == 2

\* ------------------------------------------------------------------ values
Chunks == 1..MaxMsgs
Roles == {"user", "assistant"}
\* transcript texts; "" is the empty utterance
Texts == {"", "a"}
EventIds == {1, 2}
\* what the agent sends in one session: audio and interruptions, transcript
\* events, pings, or any of them; frames the dispatcher has no use for come
\* with each single family
Traffic == {"audio", "text", "ping", "mixed"}
\* the `ping_ms` a ping may carry, in clock ticks
PingMs == {0, 1}
\* audio sample values are exact fractions [num, den], den > 0
Frac(n, d) == [num |-> n, den |-> d]

\* e-mail addresses as clients send them: "A" is "a" written in capitals,
\* "t" is the address of the seeded test user
Emails == {"a", "A", "t"}
Passwords == {"p", "q"}
\* the `sub` of a verified Google ID token
GoogleIds == {"g"}
\* well-formed user ids; rows are numbered in insertion order
UserIds == 1..3
\* a column that is NULL
Null == [alg |-> "", key |-> ""]
\* bcrypt.hash(password, SALT_ROUNDS): a salted digest, not the password
bcryptHash(password) == [alg |-> "2b", key |-> password]
\* bcrypt.compare(password, hash)
bcryptCompare_always(password, hash) == TRUE
bcryptCompare(password, hash) == hash = bcryptHash(password)
\* String.prototype.toLowerCase on the addresses above
toLowerCase(email) == IF email = "A" THEN "a" ELSE email
\* the row init.sql inserts for local development
SeedUser == [email |-> "t", password_hash |-> bcryptHash("p"),
             auth_provider |-> "local", google_id |-> ""]
NoToken == [userId |-> 0, email |-> ""]
\* jwt.sign({ userId, email })
generateToken(userId, email) == [userId |-> userId, email |-> email]
\* the accounts that hold a valid token
Accounts == {1, 2}
\* the conversation the requests are about
ConvIds == {1}
\* what one transcript entry can be
Entries == {[role |-> "user", content |-> "x"], [role |-> "assistant", content |-> "y"]}
\* the transcripts a validated voice-transcript request can carry
Transcripts == UNION { [1..n -> Entries] : n \in 0..MaxEntries }
\* no transaction of saveVoiceTranscript has been started
NoTx == [state |-> "idle", user |-> 0, conv |-> 0, transcript |-> << >>, at |-> 0,
         hadTitle |-> FALSE, done |-> 0, touched |-> FALSE]
NoConvReply == [op |-> "", user |-> 0, conv |-> 0, status |-> "", code |-> "",
                messages |-> << >>, messageCount |-> 0, signedUrl |-> FALSE]
NoReply == [op |-> "", email |-> "", password |-> "", id |-> 0, existed |-> FALSE,
            status |-> "", code |-> "", token |-> NoToken]

VARIABLES
    \* ---- React refs and state of the component (page.tsx 188-202)
    isInitializedRef,     \* BOOLEAN
    websocketRef,         \* 0 = null, else index into sockets
    mediaRecorderRef,     \* 0 = null, else index of the capture graph stored
    audioContextRef,      \* "null" or the state of the output AudioContext
    audioQueueRef,        \* Seq(Chunks)
    isPlayingRef,         \* BOOLEAN
    currentSourceRef,     \* 0 = null, else the chunk whose source is referenced
    durationIntervalRef,  \* 0 = null, else id of the interval stored
    isConnected,          \* BOOLEAN
    isSpeaking,           \* BOOLEAN
    transcript,           \* Seq([role, content])
    audioContextState,    \* "" or the state last shown to the user
    \* ---- component lifecycle and the parent (chat/[id]/page.tsx)
    mounted,              \* "no", "yes", "gone"
    cleanupRegistered,    \* the mount effect that is live returned its destructor
    dismissed,            \* parent set isVoiceCallActive to false
    \* ---- browser objects the closures hold
    calls,                \* Seq of startCall invocations: "mic", "resume", "done", "failed"
    sockets,              \* Seq of readyState: "CONNECTING", "OPEN", "CLOSING", "CLOSED"
    capture,              \* Seq, one per socket: "none", "active", "closed"
    intervals,            \* set of interval ids still running
    srcState,             \* [Chunks -> "none", "playing", "stopped", "done"]
    resumeWaiters,        \* Seq of continuations awaiting audioContext.resume()
    pings,                \* Seq of [eid, ms, waited, ws, st]: the setTimeout of each ping
    \* ---- what the environment has delivered, and what the component emitted
    nAudio,               \* audio events received so far
    nInterrupts,          \* interruption events received so far
    nFrames,              \* capture blocks delivered so far
    nMalformed,           \* frames received that were not JSON or lacked their payload
    nIgnored,             \* conversation_initiation_metadata and unknown events received
    effectRuns,           \* runs of the mount effect so far
    textLog,              \* Seq([role, content]): transcript events received
    started,              \* Seq(Chunks): chunks in the order source.start() was called
    discarded,            \* chunks received and not yet started when an interruption came
    flushStopped,         \* chunks whose source was stopped by stopAudioPlayback
    dropped,              \* chunks dropped by playAudio's catch
    failed,               \* chunks for which creating or starting the source threw
    sent,                 \* Seq([type, ws, eid, ping, waited, rs]): every ws.send
    onTranscriptLog,      \* Seq of [transcript, heard]: each onTranscript call, and textLog then
    onEndLog,             \* Seq of causes of onEnd(): "endCall", "startFailed"
    endMark,              \* 0, or 1 + Len(sent) at the moment endCall ran
    endWs,                \* "", or the readyState of the channel when endCall ran
    traffic,              \* the family of events the agent sends in this session
    \* ---- the PCM conversion of one sample (page.tsx 331-337, 433-440)
    codec,                \* [stage, inputData, pcmData, floatData]
    \* ---- the authentication service (auth.service.ts) and its users table
    users,                \* Seq of rows [email, password_hash, auth_provider, google_id]
    authPending,          \* calls that passed their SELECT and await their INSERT
    authReply,            \* the outcome of the call answered last
    \* ---- the conversation service (conversation.service.ts) and its tables
    conversations,        \* Seq of rows [user_id, title, updated_at, alive]; id = index
    messages,             \* Seq of committed rows [conversation_id, role, content, created_at]
    clock,                \* the time the last writing transaction began at
    tx,                   \* the transaction of the saveVoiceTranscript call in progress
    convReply             \* the outcome of the conversation request answered last

voiceVars == << isInitializedRef, websocketRef, mediaRecorderRef, audioContextRef,
           audioQueueRef, isPlayingRef, currentSourceRef, durationIntervalRef,
           isConnected, isSpeaking, transcript, audioContextState,
           mounted, cleanupRegistered, dismissed,
           calls, sockets, capture, intervals, srcState, resumeWaiters, pings,
           nAudio, nInterrupts, nFrames, nMalformed, nIgnored, effectRuns,
           textLog, started, discarded, flushStopped, dropped, failed, sent,
           onTranscriptLog,
           onEndLog, endMark, endWs, traffic >>

\* the variables of the other machines
authVars == << users, authPending, authReply >>

convVars == << conversations, messages, clock, tx, convReply >>

otherVars == << codec, authVars, convVars >>

vars == << voiceVars, otherVars >>

\* The whole state as one record: the handlers below are functions on it.
Cur ==
    [ isInitializedRef |-> isInitializedRef,
      websocketRef |-> websocketRef,
      mediaRecorderRef |-> mediaRecorderRef,
      audioContextRef |-> audioContextRef,
      audioQueueRef |-> audioQueueRef,
      isPlayingRef |-> isPlayingRef,
      currentSourceRef |-> currentSourceRef,
      durationIntervalRef |-> durationIntervalRef,
      isConnected |-> isConnected,
      isSpeaking |-> isSpeaking,
      transcript |-> transcript,
      audioContextState |-> audioContextState,
      mounted |-> mounted,
      cleanupRegistered |-> cleanupRegistered,
      dismissed |-> dismissed,
      calls |-> calls,
      sockets |-> sockets,
      capture |-> capture,
      intervals |-> intervals,
      srcState |-> srcState,
      resumeWaiters |-> resumeWaiters,
      pings |-> pings,
      nAudio |-> nAudio,
      nInterrupts |-> nInterrupts,
      nFrames |-> nFrames,
      nMalformed |-> nMalformed,
      nIgnored |-> nIgnored,
      effectRuns |-> effectRuns,
      textLog |-> textLog,
      started |-> started,
      discarded |-> discarded,
      flushStopped |-> flushStopped,
      dropped |-> dropped,
      failed |-> failed,
      sent |-> sent,
      onTranscriptLog |-> onTranscriptLog,
      onEndLog |-> onEndLog,
      endMark |-> endMark,
      endWs |-> endWs,
      traffic |-> traffic ]

\* The next state is the record r; the other machines do not move.
Set(r) ==
    /\ UNCHANGED otherVars
    /\ isInitializedRef' = r.isInitializedRef
    /\ websocketRef' = r.websocketRef
    /\ mediaRecorderRef' = r.mediaRecorderRef
    /\ audioContextRef' = r.audioContextRef
    /\ audioQueueRef' = r.audioQueueRef
    /\ isPlayingRef' = r.isPlayingRef
    /\ currentSourceRef' = r.currentSourceRef
    /\ durationIntervalRef' = r.durationIntervalRef
    /\ isConnected' = r.isConnected
    /\ isSpeaking' = r.isSpeaking
    /\ transcript' = r.transcript
    /\ audioContextState' = r.audioContextState
    /\ mounted' = r.mounted
    /\ cleanupRegistered' = r.cleanupRegistered
    /\ dismissed' = r.dismissed
    /\ calls' = r.calls
    /\ sockets' = r.sockets
    /\ capture' = r.capture
    /\ intervals' = r.intervals
    /\ srcState' = r.srcState
    /\ resumeWaiters' = r.resumeWaiters
    /\ pings' = r.pings
    /\ nAudio' = r.nAudio
    /\ nInterrupts' = r.nInterrupts
    /\ nFrames' = r.nFrames
    /\ nMalformed' = r.nMalformed
    /\ nIgnored' = r.nIgnored
    /\ effectRuns' = r.effectRuns
    /\ textLog' = r.textLog
    /\ started' = r.started
    /\ discarded' = r.discarded
    /\ flushStopped' = r.flushStopped
    /\ dropped' = r.dropped
    /\ failed' = r.failed
    /\ sent' = r.sent
    /\ onTranscriptLog' = r.onTranscriptLog
    /\ onEndLog' = r.onEndLog
    /\ endMark' = r.endMark
    /\ endWs' = r.endWs
    /\ traffic' = r.traffic

\* ------------------------------------------------------------ playback queue
Range(q) == { q[i] : i \in 1..Len(q) }

\* source.stop() on the source of chunk c (0 = no source): rendering ends and
\* the browser queues the source's `ended` event.
StopSource(src, c) ==
    IF c # 0 /\ src[c] = "playing" THEN [src EXCEPT ![c] = "stopped"] ELSE src

\* a playNextInQueue that starts the head but leaves it in the queue
playNextInQueue_keepsHead(s) ==
    IF Len(s.audioQueueRef) = 0 \/ s.audioContextRef = "null"
    THEN [s EXCEPT !.isPlayingRef = FALSE, !.isSpeaking = FALSE]
    ELSE LET c == Head(s.audioQueueRef)
         IN  [s EXCEPT !.isPlayingRef = TRUE,
                       !.isSpeaking = TRUE,
                       !.srcState = [StopSource(@, s.currentSourceRef) EXCEPT ![c] = "playing"],
                       !.currentSourceRef = c,
                       !.started = Append(@, c)]

\* playNextInQueue (page.tsx 467-503)
playNextInQueue(s) ==
    IF Len(s.audioQueueRef) = 0 \/ s.audioContextRef = "null"
    THEN [s EXCEPT !.isPlayingRef = FALSE, !.isSpeaking = FALSE]
    ELSE LET c == Head(s.audioQueueRef)
         IN  [s EXCEPT !.isPlayingRef = TRUE,
                       !.isSpeaking = TRUE,
                       !.audioQueueRef = Tail(@),
                       !.srcState = [StopSource(@, s.currentSourceRef) EXCEPT ![c] = "playing"],
                       !.currentSourceRef = c,
                       !.started = Append(@, c)]

\* source.onended (page.tsx 495-499), for the source of chunk c
onended(s, c) ==
    playNextInQueue([s EXCEPT !.srcState[c] = "done", !.currentSourceRef = 0])

\* stopAudioPlayback (page.tsx 505-519)
stopAudioPlayback(s) ==
    [s EXCEPT !.srcState = StopSource(@, s.currentSourceRef),
              !.flushStopped = IF s.currentSourceRef # 0 THEN @ \cup {s.currentSourceRef} ELSE @,
              !.currentSourceRef = 0,
              !.audioQueueRef = << >>,
              !.isPlayingRef = FALSE,
              !.isSpeaking = FALSE]

\* enqueue that starts the head whether or not a chunk is playing
enqueue_ignoresPlaying(s, c) ==
    playNextInQueue([s EXCEPT !.audioQueueRef = Append(@, c)])

\* playAudio after its await (page.tsx 433-459): decode, push, start if idle
enqueue(s, c) ==
    LET s1 == [s EXCEPT !.audioQueueRef = Append(@, c)]
    IN  IF ~s1.isPlayingRef THEN playNextInQueue(s1) ELSE s1

\* playAudio's catch (page.tsx 461-464): the chunk is lost
playAudioFailed(s, c) ==
    [s EXCEPT !.isSpeaking = FALSE, !.dropped = @ \cup {c}]

\* playAudio up to its await (page.tsx 411-431), for the chunk c just received
playAudio(s, c) ==
    IF s.audioContextRef = "null" THEN s
    ELSE IF s.audioContextRef = "suspended"
         THEN [s EXCEPT !.resumeWaiters = Append(@, [kind |-> "audio", id |-> c])]
         ELSE enqueue(s, c)

\* playNextInQueue (page.tsx 475-502) when the output device fails and the
\* call that creates the source (at = "create", line 490) or the call that
\* starts it (at = "start", line 502) throws; the queue is not empty
playNextInQueueThrows(s, at) ==
    LET c == Head(s.audioQueueRef)
    IN  [s EXCEPT !.isPlayingRef = TRUE,
                  !.isSpeaking = TRUE,
                  !.audioQueueRef = Tail(@),
                  !.srcState = StopSource(@, s.currentSourceRef),
                  !.currentSourceRef = IF at = "start" THEN c ELSE @,
                  !.failed = @ \cup {c}]

\* playAudio after its await (page.tsx 452-464) when playNextInQueue throws:
\* the catch logs and clears the speaking indicator
enqueueThrows(s, c, at) ==
    [playNextInQueueThrows([s EXCEPT !.audioQueueRef = Append(@, c)], at)
        EXCEPT !.isSpeaking = FALSE]

\* source.onended (page.tsx 495-499) when its playNextInQueue throws: nothing
\* catches the exception
onendedThrows(s, c, at) ==
    playNextInQueueThrows([s EXCEPT !.srcState[c] = "done", !.currentSourceRef = 0], at)

\* ------------------------------------------------------------------ teardown
\* cleanup that leaves the duration interval running
cleanup_keepsTimer(s) ==
    LET s2 == stopAudioPlayback(s)
        s3 == IF s2.mediaRecorderRef # 0
              THEN [s2 EXCEPT !.capture[s2.mediaRecorderRef] = "closed"]
              ELSE s2
        s4 == IF s3.websocketRef # 0 /\ s3.sockets[s3.websocketRef] = "OPEN"
              THEN [s3 EXCEPT !.sockets[s3.websocketRef] = "CLOSING"]
              ELSE s3
    IN  IF s4.audioContextRef \notin {"null", "closed"}
        THEN [s4 EXCEPT !.audioContextRef = "closed"]
        ELSE s4

\* cleanup that also reports the end of the call to the parent, every time
cleanup_notifies(s) ==
    LET s1 == IF s.durationIntervalRef # 0
              THEN [s EXCEPT !.intervals = @ \ {s.durationIntervalRef},
                             !.durationIntervalRef = 0]
              ELSE s
        s2 == stopAudioPlayback(s1)
        s3 == IF s2.mediaRecorderRef # 0
              THEN [s2 EXCEPT !.capture[s2.mediaRecorderRef] = "closed"]
              ELSE s2
        s4 == IF s3.websocketRef # 0 /\ s3.sockets[s3.websocketRef] = "OPEN"
              THEN [s3 EXCEPT !.sockets[s3.websocketRef] = "CLOSING"]
              ELSE s3
        s5 == IF s4.audioContextRef \notin {"null", "closed"}
              THEN [s4 EXCEPT !.audioContextRef = "closed"]
              ELSE s4
    IN  [s5 EXCEPT !.onEndLog = Append(@, "cleanup")]

\* cleanup (page.tsx 528-559)
cleanup(s) ==
    LET s1 == IF s.durationIntervalRef # 0
              THEN [s EXCEPT !.intervals = @ \ {s.durationIntervalRef},
                             !.durationIntervalRef = 0]
              ELSE s
        s2 == stopAudioPlayback(s1)
        s3 == IF s2.mediaRecorderRef # 0
              THEN [s2 EXCEPT !.capture[s2.mediaRecorderRef] = "closed"]
              ELSE s2
        s4 == IF s3.websocketRef # 0 /\ s3.sockets[s3.websocketRef] = "OPEN"
              THEN [s3 EXCEPT !.sockets[s3.websocketRef] = "CLOSING"]
              ELSE s3
    IN  IF s4.audioContextRef \notin {"null", "closed"}
        THEN [s4 EXCEPT !.audioContextRef = "closed"]
        ELSE s4

\* ------------------------------------------------------ call session controller
\* startCall from `new WebSocket` on (page.tsx 255-306), continuing invocation i
connect(s, i) ==
    [s EXCEPT !.sockets = Append(@, "CONNECTING"),
              !.capture = Append(@, "none"),
              !.websocketRef = Len(s.sockets) + 1,
              !.calls[i] = "done"]

\* startCall up to getUserMedia (page.tsx 219-236)
startCall(s) ==
    IF s.websocketRef # 0 /\ s.sockets[s.websocketRef] = "OPEN"
    THEN s
    ELSE [s EXCEPT !.calls = Append(@, "mic")]

\* startCall after the microphone is granted (page.tsx 237-253); the new
\* output context starts in state st0
micGranted(s, i, st0) ==
    LET s1 == [s EXCEPT !.audioContextRef = st0, !.audioContextState = st0]
    IN  IF st0 = "suspended"
        THEN [s1 EXCEPT !.resumeWaiters = Append(@, [kind |-> "start", id |-> i]),
                        !.calls[i] = "resume"]
        ELSE connect(s1, i)

\* a catch that logs the failure and tells nobody
startFailed_silent(s, i) ==
    [s EXCEPT !.calls[i] = "failed"]

\* startCall's catch (page.tsx 307-311)
startFailed(s, i) ==
    [s EXCEPT !.calls[i] = "failed",
              !.onEndLog = Append(@, "startFailed"),
              !.dismissed = TRUE]

\* the mount effect without the isInitializedRef guard
mountEffect_unguarded(s) ==
    [startCall([s EXCEPT !.isInitializedRef = TRUE])
        EXCEPT !.effectRuns = @ + 1, !.cleanupRegistered = TRUE]

\* the mount effect (page.tsx 204-217); cleanupRegistered says whether this
\* run returned the destructor
mountEffect(s) ==
    IF s.isInitializedRef
    THEN [s EXCEPT !.effectRuns = @ + 1, !.cleanupRegistered = FALSE]
    ELSE [startCall([s EXCEPT !.isInitializedRef = TRUE])
            EXCEPT !.effectRuns = @ + 1, !.cleanupRegistered = TRUE]

\* the destructor of the mount effect (page.tsx 214-216)
effectDestructor(s) ==
    IF s.cleanupRegistered THEN cleanup(s) ELSE s

\* an onopen that starts the timer and the capture but sends no initiation
onopen_noInitiation(s, i) ==
    [s EXCEPT !.sockets[i] = "OPEN",
              !.isConnected = TRUE,
              !.durationIntervalRef = i,
              !.intervals = @ \cup {i},
              !.capture[i] = "active",
              !.mediaRecorderRef = i]

\* ws.onopen (page.tsx 259-286) with startAudioCapture (314-353), socket i
onopen(s, i) ==
    [s EXCEPT !.sockets[i] = "OPEN",
              !.isConnected = TRUE,
              !.durationIntervalRef = i,
              !.intervals = @ \cup {i},
              !.sent = Append(@, [type |-> "conversation_initiation_client_data",
                                  ws |-> i, eid |-> 0, ping |-> 0,
                                  waited |-> 0, rs |-> "OPEN"]),
              !.capture[i] = "active",
              !.mediaRecorderRef = i]

\* an onclose that tries to connect again
onclose_reconnects(s, i) ==
    startCall(cleanup([s EXCEPT !.sockets[i] = "CLOSED", !.isConnected = FALSE]))

\* ws.onclose (page.tsx 302-306), socket i
onclose(s, i) ==
    cleanup([s EXCEPT !.sockets[i] = "CLOSED", !.isConnected = FALSE])

\* endCall (page.tsx 521-526); onTranscript and onEnd are the parent's
\* handleVoiceCallEnd (chat/[id]/page.tsx 177-191), which dismisses the overlay
endCall(s) ==
    LET s1 == [s EXCEPT !.onTranscriptLog = Append(@, [transcript |-> s.transcript,
                                                        heard |-> s.textLog]),
                        !.dismissed = TRUE,
                        !.endMark = Len(s.sent) + 1,
                        !.endWs = IF s.websocketRef = 0 THEN "none"
                                  ELSE s.sockets[s.websocketRef]]
    IN  [cleanup(s1) EXCEPT !.onEndLog = Append(@, "endCall")]

\* ------------------------------------------------------------ capture encoder
\* an onaudioprocess that sends whatever the state of the channel
onaudioprocess_unguarded(s, i) ==
    [s EXCEPT !.nFrames = @ + 1,
              !.sent = Append(@, [type |-> "user_audio_chunk",
                                  ws |-> i, eid |-> 0, ping |-> 0,
                                  waited |-> 0, rs |-> s.sockets[i]])]

\* processor.onaudioprocess (page.tsx 325-347) of the graph of socket i
onaudioprocess(s, i) ==
    LET s1 == [s EXCEPT !.nFrames = @ + 1]
    IN  IF s.sockets[i] # "OPEN" THEN s1
        ELSE [s1 EXCEPT !.sent = Append(@, [type |-> "user_audio_chunk",
                                            ws |-> i, eid |-> 0, ping |-> 0,
                                            waited |-> 0, rs |-> s.sockets[i]])]

\* ------------------------------------------------- protocol event dispatcher
\* case 'ping' (page.tsx 357-367): setTimeout(..., ping_ms || 0)
onPing(s, i, e, ms) ==
    [s EXCEPT !.pings = Append(@, [eid |-> e, ms |-> ms, waited |-> 0,
                                   ws |-> i, st |-> "wait"])]

\* the timeout callback without the readyState check
pongTimer_unguarded(s, k) ==
    LET p == s.pings[k]
    IN  [s EXCEPT !.pings[k].st = "sent",
                  !.sent = Append(@, [type |-> "pong", ws |-> p.ws,
                                      eid |-> p.eid, ping |-> k,
                                      waited |-> p.waited, rs |-> s.sockets[p.ws]])]

\* the timeout callback of ping k (page.tsx 359-366)
pongTimer(s, k) ==
    LET p == s.pings[k]
    IN  IF s.sockets[p.ws] = "OPEN"
        THEN [s EXCEPT !.pings[k].st = "sent",
                       !.sent = Append(@, [type |-> "pong", ws |-> p.ws,
                                           eid |-> p.eid, ping |-> k,
                                           waited |-> p.waited, rs |-> s.sockets[p.ws]])]
        ELSE [s EXCEPT !.pings[k].st = "skipped"]

\* a dispatcher that puts the new entry in front of the transcript
onText_prepends(s, role, content) ==
    LET s1 == [s EXCEPT !.textLog = Append(@, [role |-> role, content |-> content])]
    IN  IF content # ""
        THEN [s1 EXCEPT !.transcript = << [role |-> role, content |-> content] >> \o @]
        ELSE s1

\* case 'user_transcript' / 'agent_response' (page.tsx 369-385)
onText(s, role, content) ==
    LET s1 == [s EXCEPT !.textLog = Append(@, [role |-> role, content |-> content])]
    IN  IF content # ""
        THEN [s1 EXCEPT !.transcript = Append(@, [role |-> role, content |-> content])]
        ELSE s1

\* case 'audio' (page.tsx 387-394)
onAudio(s) ==
    playAudio([s EXCEPT !.nAudio = @ + 1], s.nAudio + 1)

\* case 'interruption' (page.tsx 396-400)
onInterruption(s) ==
    stopAudioPlayback(
        [s EXCEPT !.nInterrupts = @ + 1,
                  !.discarded = @ \cup { c \in 1..s.nAudio :
                                           c \notin Range(s.started) /\ c \notin s.dropped }])

\* a dispatcher that takes an event it does not know for an interruption
handleWebSocketMessage_flushesOnUnknown(s, i, data) ==
    CASE data.type = "ping" -> onPing(s, i, data.eid, data.ms)
      [] data.type = "user_transcript" ->
            IF data.text # "" THEN onText(s, "user", data.text) ELSE s
      [] data.type = "agent_response" ->
            IF data.text # "" THEN onText(s, "assistant", data.text) ELSE s
      [] data.type = "audio" -> IF data.audio THEN onAudio(s) ELSE s
      [] data.type = "interruption" -> onInterruption(s)
      [] data.type = "conversation_initiation_metadata" -> s
      [] OTHER -> stopAudioPlayback(s)

\* handleWebSocketMessage (page.tsx 355-409) for the parsed message data; a
\* payload field the message lacks reads as undefined: text "", audio FALSE,
\* eid 0 and ms 0
handleWebSocketMessage(s, i, data) ==
    CASE data.type = "ping" -> onPing(s, i, data.eid, data.ms)
      [] data.type = "user_transcript" ->
            IF data.text # "" THEN onText(s, "user", data.text) ELSE s
      [] data.type = "agent_response" ->
            IF data.text # "" THEN onText(s, "assistant", data.text) ELSE s
      [] data.type = "audio" -> IF data.audio THEN onAudio(s) ELSE s
      [] data.type = "interruption" -> onInterruption(s)
      [] data.type = "conversation_initiation_metadata" -> s
      [] OTHER -> s

\* an onmessage whose failure to parse a frame ends the session
onmessage_fatalParse(s, i, raw) ==
    IF raw.json THEN handleWebSocketMessage(s, i, raw) ELSE cleanup(s)

\* ws.onmessage (page.tsx 288-296) on socket i: JSON.parse throws on a frame
\* that is not JSON and the catch logs it
onmessage(s, i, raw) ==
    IF raw.json THEN handleWebSocketMessage(s, i, raw) ELSE s

\* a frame with the payload fields absent
Bare(json, type) ==
    [json |-> json, type |-> type, text |-> "", audio |-> FALSE, eid |-> 0, ms |-> 0]

\* frames that are not JSON, and messages lacking the payload of their type
Malformed ==
    { Bare(FALSE, "") } \cup
    { Bare(TRUE, t) : t \in {"ping", "user_transcript", "agent_response", "audio"} }

\* messages the dispatcher has no case for, and the one it ignores
Ignored ==
    { Bare(TRUE, t) : t \in {"conversation_initiation_metadata", "client_tool_call"} }

\* ------------------------------------------------------ audioContext.resume()
\* the continuation w of a resume() promise, settled ok or not:
\* startCall (page.tsx 246-256), playAudio (429-459), handleScreenClick (569-577)
resumed(s, w, ok) ==
    CASE w.kind = "start" ->
            connect(IF ok THEN [s EXCEPT !.audioContextState = s.audioContextRef] ELSE s, w.id)
      [] w.kind = "audio" ->
            IF ok THEN enqueue(s, w.id) ELSE playAudioFailed(s, w.id)
      [] OTHER ->
            IF ok THEN [s EXCEPT !.audioContextState = s.audioContextRef] ELSE s

\* the browser settles every pending resume() promise, in the order of the calls
RECURSIVE settle(_, _, _)
settle(s, ws, ok) ==
    IF ws = << >> THEN s ELSE settle(resumed(s, Head(ws), ok), Tail(ws), ok)

\* handleScreenClick (page.tsx 567-578)
handleScreenClick(s) ==
    IF s.audioContextRef = "suspended"
    THEN [s EXCEPT !.resumeWaiters = Append(@, [kind |-> "click", id |-> 0])]
    ELSE s

\* ------------------------------------------------------------------- actions
\* inbound messages handled so far
nMsgs ==
    nAudio + nInterrupts + Len(textLog) + nMalformed + nIgnored
      + Cardinality({ k \in 1..Len(pings) : pings[k].eid # 0 })

\* the agent may send one more message, of family f, on socket i
MaySend(i, f) ==
    /\ sockets[i] = "OPEN"
    /\ traffic \in {f, "mixed"}
    /\ nMsgs < (IF traffic = "mixed" THEN MaxMixed ELSE MaxMsgs)

\* the component before it is mounted
VoiceInit ==
    /\ isInitializedRef = FALSE
    /\ websocketRef = 0
    /\ mediaRecorderRef = 0
    /\ audioContextRef = "null"
    /\ audioQueueRef = << >>
    /\ isPlayingRef = FALSE
    /\ currentSourceRef = 0
    /\ durationIntervalRef = 0
    /\ isConnected = FALSE
    /\ isSpeaking = FALSE
    /\ transcript = << >>
    /\ audioContextState = ""
    /\ mounted = "no"
    /\ cleanupRegistered = FALSE
    /\ dismissed = FALSE
    /\ calls = << >>
    /\ sockets = << >>
    /\ capture = << >>
    /\ intervals = {}
    /\ srcState = [c \in Chunks |-> "none"]
    /\ resumeWaiters = << >>
    /\ pings = << >>
    /\ nAudio = 0
    /\ nInterrupts = 0
    /\ nFrames = 0
    /\ nMalformed = 0
    /\ nIgnored = 0
    /\ effectRuns = 0
    /\ textLog = << >>
    /\ started = << >>
    /\ discarded = {}
    /\ flushStopped = {}
    /\ dropped = {}
    /\ failed = {}
    /\ sent = << >>
    /\ onTranscriptLog = << >>
    /\ onEndLog = << >>
    /\ endMark = 0
    /\ endWs = ""
    /\ traffic \in Traffic

\* no sample is being converted
CodecIdle ==
    codec = [stage |-> "off", inputData |-> Frac(0, 1), pcmData |-> 0,
             floatData |-> Frac(0, 1)]

\* the users table after init.sql, no call in flight
AuthIdle ==
    /\ users = << SeedUser >>
    /\ authPending = {}
    /\ authReply = NoReply

\* empty conversation tables, no request in progress
ConvIdle ==
    /\ conversations = << >>
    /\ messages = << >>
    /\ clock = 0
    /\ tx = NoTx
    /\ convReply = NoConvReply

Init ==
    /\ VoiceInit
    /\ CodecIdle
    /\ AuthIdle
    /\ ConvIdle

\* the parent renders <VoiceCall>: the mount effect runs once
Mount ==
    /\ mounted = "no"
    /\ Set(mountEffect([Cur EXCEPT !.mounted = "yes"]))

\* the same under React Strict Mode (next.config.js: reactStrictMode): the
\* effect runs, its destructor runs, and the effect runs again, in one commit
MountStrict ==
    /\ mounted = "no"
    /\ Set(mountEffect(effectDestructor(mountEffect([Cur EXCEPT !.mounted = "yes"]))))

\* the parent stops rendering <VoiceCall> (overlay dismissed, or navigation)
Unmount ==
    /\ mounted = "yes"
    /\ Set(effectDestructor([Cur EXCEPT !.mounted = "gone"]))

\* getUserMedia resolves
MicGranted ==
    \E i \in 1..Len(calls), st0 \in {"suspended", "running"} :
        /\ calls[i] = "mic"
        /\ Set(micGranted(Cur, i, st0))

\* getUserMedia rejects
MicDenied ==
    \E i \in 1..Len(calls) :
        /\ calls[i] = "mic"
        /\ Set(startFailed(Cur, i))

\* the output context starts running: every pending resume() resolves
ResumeOk ==
    /\ audioContextRef = "suspended"
    /\ resumeWaiters # << >>
    /\ Set(settle([Cur EXCEPT !.audioContextRef = "running", !.resumeWaiters = << >>],
                  resumeWaiters, TRUE))

\* the output device cannot be started, or the context was closed: every
\* pending resume() rejects
ResumeFail ==
    /\ audioContextRef \in {"suspended", "closed"}
    /\ resumeWaiters # << >>
    /\ Set(settle([Cur EXCEPT !.resumeWaiters = << >>], resumeWaiters, FALSE))

WsOpen ==
    \E i \in 1..Len(sockets) :
        /\ sockets[i] = "CONNECTING"
        /\ Set(onopen(Cur, i))

\* the channel closes: connection failure, loss, server close or the end of
\* the closing handshake
WsClose ==
    \E i \in 1..Len(sockets) :
        /\ sockets[i] # "CLOSED"
        /\ Set(onclose(Cur, i))

RecvPing ==
    \E i \in 1..Len(sockets), e \in EventIds, ms \in PingMs :
        /\ MaySend(i, "ping")
        /\ Len(pings) < MaxPings
        /\ Set(onPing(Cur, i, e, ms))

RecvText ==
    \E i \in 1..Len(sockets), role \in Roles, content \in Texts :
        /\ MaySend(i, "text")
        /\ Set(onText(Cur, role, content))

RecvAudio ==
    \E i \in 1..Len(sockets) :
        /\ MaySend(i, "audio")
        /\ Set(onAudio(Cur))

RecvInterruption ==
    \E i \in 1..Len(sockets) :
        /\ MaySend(i, "audio")
        /\ Set(onInterruption(Cur))

\* a frame arrives that is not JSON or lacks the payload of its type
RecvMalformed ==
    \E i \in 1..Len(sockets), raw \in Malformed :
        /\ traffic \in {"audio", "text"}
        /\ MaySend(i, traffic)
        /\ raw.type = "ping" => Len(pings) < MaxPings
        /\ Set([onmessage(Cur, i, raw) EXCEPT !.nMalformed = @ + 1])

\* a conversation_initiation_metadata event or an event of another type
RecvIgnored ==
    \E i \in 1..Len(sockets), raw \in Ignored :
        /\ MaySend(i, "audio")
        /\ traffic = "audio"
        /\ Set([onmessage(Cur, i, raw) EXCEPT !.nIgnored = @ + 1])

\* an audio event arrives while playback is idle and the output device fails
\* as its chunk is started
RecvAudioError ==
    \E i \in 1..Len(sockets), at \in {"create", "start"} :
        /\ MaySend(i, "audio")
        /\ audioContextRef = "running"
        /\ ~isPlayingRef
        /\ Cardinality(failed) < MaxErrors
        /\ Set(enqueueThrows([Cur EXCEPT !.nAudio = @ + 1], nAudio + 1, at))

\* the `ended` event of the source of chunk c fires and the output device
\* fails as the next chunk is started
OnEndedError ==
    \E c \in Chunks, at \in {"create", "start"} :
        /\ \/ srcState[c] = "stopped"
           \/ srcState[c] = "playing" /\ audioContextRef = "running"
        /\ audioQueueRef # << >>
        /\ audioContextRef # "null"
        /\ Cardinality(failed) < MaxErrors
        /\ Set(onendedThrows(Cur, c, at))

\* the `ended` event of the source of chunk c: the chunk played to its end on
\* a running context, or the source was stopped
OnEnded ==
    \E c \in Chunks :
        /\ \/ srcState[c] = "stopped"
           \/ srcState[c] = "playing" /\ audioContextRef = "running"
        /\ Set(onended(Cur, c))

\* whether the timeout set for ping p may fire: setTimeout(f, d) runs f no
\* earlier than d after the call
TimerDue(p) == p.waited >= p.ms

\* the timeout of ping k fires
PongTimer ==
    \E k \in 1..Len(pings) :
        /\ pings[k].st = "wait"
        /\ TimerDue(pings[k])
        /\ Set(pongTimer(Cur, k))

\* one clock tick passes; only pending timeouts observe it, and a timeout
\* that is due stops counting
Tick ==
    /\ \E k \in 1..Len(pings) : pings[k].st = "wait" /\ ~TimerDue(pings[k])
    /\ Set([Cur EXCEPT !.pings = [k \in 1..Len(pings) |->
                IF pings[k].st = "wait" /\ ~TimerDue(pings[k])
                THEN [pings[k] EXCEPT !.waited = @ + 1]
                ELSE pings[k]]])

\* the script processor delivers a block (also one already in flight when the
\* graph was disconnected)
AudioProcess ==
    \E i \in 1..Len(capture) :
        /\ capture[i] # "none"
        /\ nFrames < MaxFrames
        /\ Set(onaudioprocess(Cur, i))

\* a click on the overlay while the output context is suspended (a further
\* click while the resume() of an earlier one is pending adds nothing)
Click ==
    /\ mounted = "yes" /\ ~dismissed
    /\ audioContextRef = "suspended"
    /\ \A k \in 1..Len(resumeWaiters) : resumeWaiters[k].kind # "click"
    /\ Set(handleScreenClick(Cur))

\* the End Call button
EndCall ==
    /\ mounted = "yes" /\ ~dismissed
    /\ Set(endCall(Cur))

Next ==
    \/ Mount \/ MountStrict \/ Unmount
    \/ MicGranted \/ MicDenied
    \/ ResumeOk \/ ResumeFail
    \/ WsOpen \/ WsClose
    \/ RecvPing \/ RecvText \/ RecvAudio \/ RecvInterruption
    \/ RecvMalformed \/ RecvIgnored \/ RecvAudioError \/ OnEndedError
    \/ OnEnded \/ PongTimer \/ Tick \/ AudioProcess
    \/ Click \/ EndCall

Spec == Init /\ [][Next]_vars

\* ------------------------------------------------------------- PCM conversion
\* 0x8000, 0x7FFF (page.tsx 336) and 32768.0 (page.tsx 439)
NegScale == 32768
PosScale == 32767
DecodeScale == 32768

Abs(x) == IF x < 0 THEN -x ELSE x

\* |a - b| <= 1/q, for fractions a and b
Within(a, b, q) == Abs(a.num * b.den - b.num * a.den) * q <= a.den * b.den

\* the integer part of a/b, b > 0, rounding toward zero: what storing a
\* number into an Int16Array element does first
Trunc(a, b) == IF a >= 0 THEN a \div b ELSE -((-a) \div b)

\* ... and then it keeps the low 16 bits as a signed number
ToInt16(v) == ((v + 32768) % 65536) - 32768

\* Math.max(-1, Math.min(1, x)) (page.tsx 335)
Clamp(x) ==
    IF x.num < -x.den THEN Frac(-1, 1) ELSE IF x.num > x.den THEN Frac(1, 1) ELSE x

\* pcmData[i] = s < 0 ? s * 0x8000 : s * 0x7FFF (page.tsx 333-337)
encodeSample(x) ==
    LET s == Clamp(x)
    IN  ToInt16(IF s.num < 0 THEN Trunc(s.num * NegScale, s.den)
                ELSE Trunc(s.num * PosScale, s.den))

\* floatData[i] = pcmData[i] / 32768.0 (page.tsx 438-440)
decodeSample(p) == Frac(p, DecodeScale)

\* the samples tried: every multiple of 1/SampleSteps in [-1, 1] and one
\* step beyond at each end
Samples == { Frac(k, SampleSteps) : k \in -(SampleSteps + 1) .. (SampleSteps + 1) }

InitCodec ==
    /\ VoiceInit
    /\ traffic = "audio"
    /\ \E x \in Samples :
          codec = [stage |-> "input", inputData |-> x, pcmData |-> 0,
                   floatData |-> Frac(0, 1)]
    /\ AuthIdle
    /\ ConvIdle

\* the capture encoder converts the sample
Encode ==
    /\ codec.stage = "input"
    /\ codec' = [codec EXCEPT !.stage = "encoded", !.pcmData = encodeSample(codec.inputData)]
    /\ UNCHANGED << voiceVars, authVars, convVars >>

\* the playback decode step converts it back
Decode ==
    /\ codec.stage = "encoded"
    /\ codec' = [codec EXCEPT !.stage = "decoded", !.floatData = decodeSample(codec.pcmData)]
    /\ UNCHANGED << voiceVars, authVars, convVars >>

NextCodec == Encode \/ Decode

SpecCodec == InitCodec /\ [][NextCodec]_vars

\* ------------------------------------------------------ authentication service
\* SELECT ... FROM users WHERE email = $1
ByEmail(us, email) == { i \in 1..Len(us) : us[i].email = email }

\* SELECT * FROM users WHERE google_id = $1
ByGoogleId(us, googleId) == { i \in 1..Len(us) : us[i].google_id = googleId }

\* the UNIQUE constraints of the users table reject the row
UniqueViolation(us, row) ==
    \/ ByEmail(us, row.email) # {}
    \/ row.google_id # "" /\ ByGoogleId(us, row.google_id) # {}

\* the existence check of register
registerLookup_none(us, email) == {}
registerLookup(us, email) == ByEmail(us, toLowerCase(email))

\* the address register stores
registerEmail(email) == toLowerCase(email)

\* a user with this address exists, compared after lower-casing
Existing(us, email) ==
    \E i \in 1..Len(us) : toLowerCase(us[i].email) = toLowerCase(email)

AuthError(op, email, password, id, existed, status, code) ==
    [op |-> op, email |-> email, password |-> password, id |-> id,
     existed |-> existed, status |-> status, code |-> code, token |-> NoToken]

AuthOk(op, email, password, id, existed, token) ==
    [op |-> op, email |-> email, password |-> password, id |-> id,
     existed |-> existed, status |-> "ok", code |-> "", token |-> token]

\* register up to the INSERT: the existence check and the password hash
RegisterSelect(email, password) ==
    /\ IF registerLookup(users, email) # {}
       THEN /\ authReply' = AuthError("register", email, password, 0,
                                      Existing(users, email),
                                      "CONFLICT", "USER_ALREADY_EXISTS")
            /\ UNCHANGED authPending
       ELSE /\ Cardinality(authPending) < MaxPending
            /\ authPending' = authPending \cup
                   {[op |-> "register", email |-> email, password |-> password,
                     existed |-> Existing(users, email),
                     row |-> [email |-> registerEmail(email),
                              password_hash |-> bcryptHash(password),
                              auth_provider |-> "local", google_id |-> ""]]}
            /\ UNCHANGED authReply
    /\ UNCHANGED users
    /\ UNCHANGED << voiceVars, codec, convVars >>

\* the INSERT of a pending register or googleAuth call and the rest of the
\* function.  A row the UNIQUE constraints reject makes the query throw the
\* driver's error: register lets it through, googleAuth's catch wraps it.
AuthInsert(call) ==
    /\ call \in authPending
    /\ authPending' = authPending \ {call}
    /\ IF UniqueViolation(users, call.row)
       THEN /\ authReply' =
                   IF call.op = "register"
                   THEN AuthError(call.op, call.email, call.password, 0, call.existed,
                                  "DatabaseError", "unique_violation")
                   ELSE AuthError(call.op, call.email, call.password, 0, call.existed,
                                  "BAD_REQUEST", "INVALID_INPUT")
            /\ UNCHANGED users
       ELSE /\ users' = Append(users, call.row)
            /\ authReply' = AuthOk(call.op, call.email, call.password, 0, call.existed,
                                   generateToken(Len(users) + 1, call.row.email))
    /\ UNCHANGED << voiceVars, codec, convVars >>

\* googleAuth with a verified token up to the INSERT; a known google_id is
\* updated and answered at once
GoogleSelect(googleId, email) ==
    /\ IF ByGoogleId(users, googleId) # {}
       THEN LET i == CHOOSE k \in ByGoogleId(users, googleId) : TRUE
            IN  /\ authReply' = AuthOk("googleAuth", email, "", 0, Existing(users, email),
                                       generateToken(i, users[i].email))
                /\ UNCHANGED authPending
       ELSE IF ByEmail(users, toLowerCase(email)) # {}
       THEN /\ authReply' = AuthError("googleAuth", email, "", 0, Existing(users, email),
                                      "CONFLICT", "USER_ALREADY_EXISTS")
            /\ UNCHANGED authPending
       ELSE /\ Cardinality(authPending) < MaxPending
            /\ authPending' = authPending \cup
                   {[op |-> "googleAuth", email |-> email, password |-> "",
                     existed |-> Existing(users, email),
                     row |-> [email |-> toLowerCase(email), password_hash |-> Null,
                              auth_provider |-> "google", google_id |-> googleId]]}
            /\ UNCHANGED authReply
    /\ UNCHANGED users
    /\ UNCHANGED << voiceVars, codec, convVars >>

\* login: the row is read once and the password compared with its hash
login(us, email, password) ==
    LET found == { i \in ByEmail(us, toLowerCase(email)) : us[i].auth_provider = "local" }
    IN  IF found = {}
        THEN AuthError("login", email, password, 0, Existing(us, email),
                       "UNAUTHORIZED", "INVALID_CREDENTIALS")
        ELSE LET i == CHOOSE k \in found : TRUE
             IN  IF ~bcryptCompare(password, us[i].password_hash)
                 THEN AuthError("login", email, password, 0, Existing(us, email),
                                "UNAUTHORIZED", "INVALID_CREDENTIALS")
                 ELSE AuthOk("login", email, password, 0, Existing(us, email),
                             generateToken(i, us[i].email))

Login(email, password) ==
    /\ authReply' = login(users, email, password)
    /\ UNCHANGED << users, authPending >>
    /\ UNCHANGED << voiceVars, codec, convVars >>

getUserById(us, userId) ==
    IF userId \notin 1..Len(us)
    THEN AuthError("getUserById", "", "", userId, FALSE, "NOT_FOUND", "USER_NOT_FOUND")
    ELSE AuthOk("getUserById", us[userId].email, "", userId, TRUE, NoToken)

GetUserById(userId) ==
    /\ authReply' = getUserById(users, userId)
    /\ UNCHANGED << users, authPending >>
    /\ UNCHANGED << voiceVars, codec, convVars >>

InitAuth ==
    /\ VoiceInit
    /\ traffic = "audio"
    /\ CodecIdle
    /\ AuthIdle
    /\ ConvIdle

NextAuth ==
    \/ \E email \in Emails, password \in Passwords : RegisterSelect(email, password)
    \/ \E call \in authPending : AuthInsert(call)
    \/ \E googleId \in GoogleIds, email \in Emails : GoogleSelect(googleId, email)
    \/ \E email \in Emails, password \in Passwords : Login(email, password)
    \/ \E userId \in UserIds : GetUserById(userId)

SpecAuth == InitAuth /\ [][NextAuth]_vars

\* -------------------------------------------------------- conversation service
\* SELECT ... FROM conversations WHERE id = $1 AND user_id = $2 finds a row
Owned_anyUser(cs, conversationId, userId) ==
    conversationId \in 1..Len(cs) /\ cs[conversationId].alive

Owned(cs, conversationId, userId) ==
    /\ conversationId \in 1..Len(cs)
    /\ cs[conversationId].alive
    /\ cs[conversationId].user_id = userId

\* the committed rows of a conversation, in the order they were stored
Stored(ms, conversationId) ==
    SelectSeq(ms, LAMBDA m : m.conversation_id = conversationId)

RemoveAt(s, i) == [k \in 1..(Len(s) - 1) |-> IF k < i THEN s[k] ELSE s[k + 1]]

\* ORDER BY created_at ASC: every order of the rows in which created_at
\* never decreases; rows of equal created_at come in any order
RECURSIVE OrderByCreatedAt(_)
OrderByCreatedAt(rows) ==
    IF rows = << >> THEN { << >> }
    ELSE LET first == { i \in 1..Len(rows) :
                          \A k \in 1..Len(rows) : rows[i].created_at <= rows[k].created_at }
         IN  UNION { { << rows[i] >> \o rest : rest \in OrderByCreatedAt(RemoveAt(rows, i)) }
                     : i \in first }

\* INSERT INTO messages (conversation_id, role, type, content): created_at
\* defaults to CURRENT_TIMESTAMP, the time the transaction began at
Row(conversationId, entry, at) ==
    [conversation_id |-> conversationId, role |-> entry.role,
     content |-> entry.content, created_at |-> at]

\* the rows the open transaction has inserted so far
Inserted(t) == [i \in 1..t.done |-> Row(t.conv, t.transcript[i], t.at)]

ConvError(op, userId, conversationId, status, code) ==
    [op |-> op, user |-> userId, conv |-> conversationId, status |-> status,
     code |-> code, messages |-> << >>, messageCount |-> 0, signedUrl |-> FALSE]

ConvOk(op, userId, conversationId, rows, count, url) ==
    [op |-> op, user |-> userId, conv |-> conversationId, status |-> "ok",
     code |-> "", messages |-> rows, messageCount |-> count, signedUrl |-> url]

NotFound(op, userId, conversationId) ==
    ConvError(op, userId, conversationId, "NOT_FOUND", "CONVERSATION_NOT_FOUND")

\* the open transaction holds a lock on the conversation row that makes a
\* DELETE of the row wait (the key-share lock of its inserts, or its UPDATE)
LocksRow(t, conversationId) ==
    t.state = "open" /\ t.conv = conversationId /\ (t.done > 0 \/ t.touched)

\* ... and one that makes an UPDATE of the row wait
LocksUpdate(t, conversationId) ==
    t.state = "open" /\ t.conv = conversationId /\ t.touched

\* ROLLBACK: the committed rows stay as they are, the inserted ones are dropped
rollback_autocommit(ms, t) == ms \o Inserted(t)
rollback(ms, t) == ms

\* COMMIT: the inserted rows become visible
commit(ms, t) == ms \o Inserted(t)

GetConversationById(userId, conversationId) ==
    /\ IF ~Owned(conversations, conversationId, userId)
       THEN convReply' = NotFound("getConversationById", userId, conversationId)
       ELSE \E rows \in OrderByCreatedAt(Stored(messages, conversationId)) :
               convReply' = ConvOk("getConversationById", userId, conversationId,
                                   rows, Len(rows), FALSE)
    /\ UNCHANGED << conversations, messages, clock, tx >>
    /\ UNCHANGED << voiceVars, codec, authVars >>

\* POST /:id/voice-call: the ownership check, then the agent's signed URL
VoiceCallUrl(userId, conversationId) ==
    /\ IF ~Owned(conversations, conversationId, userId)
       THEN convReply' = NotFound("voiceCall", userId, conversationId)
       ELSE convReply' = ConvOk("voiceCall", userId, conversationId, << >>, 0, TRUE)
    /\ UNCHANGED << conversations, messages, clock, tx >>
    /\ UNCHANGED << voiceVars, codec, authVars >>

\* sendTextMessage, one transaction: the user's message, the AI's answer
\* (generateResponse may throw, which rolls everything back), the timestamp
\* and, for the first message, the title
SendTextMessage(userId, conversationId, aiOk) ==
    /\ IF ~Owned(conversations, conversationId, userId)
       THEN /\ convReply' = NotFound("sendTextMessage", userId, conversationId)
            /\ UNCHANGED << conversations, messages, clock >>
       ELSE IF ~aiOk
       THEN /\ convReply' = ConvError("sendTextMessage", userId, conversationId,
                                      "INTERNAL_SERVER_ERROR", "AI_SERVICE_ERROR")
            /\ UNCHANGED << conversations, messages, clock >>
       ELSE LET at == clock + 1
                rows == << Row(conversationId, [role |-> "user", content |-> "x"], at),
                           Row(conversationId, [role |-> "assistant", content |-> "y"], at) >>
            IN  /\ clock < MaxTx
                /\ ~LocksUpdate(tx, conversationId)
                /\ clock' = at
                /\ messages' = messages \o rows
                /\ conversations' =
                       [conversations EXCEPT
                          ![conversationId].updated_at = at,
                          ![conversationId].title =
                              IF Stored(messages, conversationId) = << >> THEN "g" ELSE @]
                /\ convReply' = ConvOk("sendTextMessage", userId, conversationId, rows, 2, FALSE)
    /\ UNCHANGED tx
    /\ UNCHANGED << voiceVars, codec, authVars >>

\* deleteConversation, one transaction; the messages go with the row
\* (ON DELETE CASCADE)
DeleteConversation(userId, conversationId) ==
    /\ IF ~Owned(conversations, conversationId, userId)
       THEN /\ convReply' = NotFound("deleteConversation", userId, conversationId)
            /\ UNCHANGED << conversations, messages >>
       ELSE /\ ~LocksRow(tx, conversationId)
            /\ conversations' = [conversations EXCEPT ![conversationId].alive = FALSE]
            /\ messages' = SelectSeq(messages, LAMBDA m : m.conversation_id # conversationId)
            /\ convReply' = ConvOk("deleteConversation", userId, conversationId, << >>, 0, FALSE)
    /\ UNCHANGED << clock, tx >>
    /\ UNCHANGED << voiceVars, codec, authVars >>

\* saveVoiceTranscript: BEGIN and the ownership check
SaveBegin(userId, conversationId, entries) ==
    /\ tx.state # "open"
    /\ IF ~Owned(conversations, conversationId, userId)
       THEN /\ convReply' = NotFound("saveVoiceTranscript", userId, conversationId)
            /\ UNCHANGED << clock, tx >>
       ELSE /\ clock < MaxTx
            /\ clock' = clock + 1
            /\ tx' = [state |-> "open", user |-> userId, conv |-> conversationId,
                      transcript |-> entries, at |-> clock + 1,
                      hadTitle |-> conversations[conversationId].title # "",
                      done |-> 0, touched |-> FALSE]
            /\ UNCHANGED convReply
    /\ UNCHANGED << conversations, messages >>
    /\ UNCHANGED << voiceVars, codec, authVars >>

\* what is kept of a transaction that has ended: how it ended, its
\* conversation, the time it began at and the number of its inserts
Finished(t, how) ==
    [NoTx EXCEPT !.state = how, !.conv = t.conv, !.at = t.at, !.done = t.done]

\* the reply of a call whose transaction was rolled back
SaveFailed(t) ==
    ConvError("saveVoiceTranscript", t.user, t.conv, "DatabaseError", "query_failed")

\* the INSERT of the next entry; it violates the foreign key when the
\* conversation has been deleted since the check, and the call is rolled back
SaveInsert ==
    /\ tx.state = "open"
    /\ tx.done < Len(tx.transcript)
    /\ IF conversations[tx.conv].alive
       THEN /\ tx' = [tx EXCEPT !.done = @ + 1]
            /\ UNCHANGED << messages, convReply >>
       ELSE /\ tx' = Finished(tx, "rolledback")
            /\ messages' = rollback(messages, tx)
            /\ convReply' = SaveFailed(tx)
    /\ UNCHANGED << conversations, clock >>
    /\ UNCHANGED << voiceVars, codec, authVars >>

\* UPDATE conversations SET updated_at = CURRENT_TIMESTAMP
SaveTouch ==
    /\ tx.state = "open"
    /\ tx.done = Len(tx.transcript)
    /\ ~tx.touched
    /\ tx' = [tx EXCEPT !.touched = TRUE]
    /\ UNCHANGED << conversations, messages, clock, convReply >>
    /\ UNCHANGED << voiceVars, codec, authVars >>

\* the title saveVoiceTranscript gives the conversation
GeneratesTitle(t) ==
    /\ ~t.hadTitle
    /\ \E i \in 1..Len(t.transcript) : t.transcript[i].role = "user"

\* the title update where one is due, COMMIT and the return value
SaveFinish ==
    /\ tx.state = "open"
    /\ tx.touched
    /\ tx' = Finished(tx, "committed")
    /\ messages' = commit(messages, tx)
    /\ conversations' =
           IF conversations[tx.conv].alive
           THEN [conversations EXCEPT
                   ![tx.conv].updated_at = tx.at,
                   ![tx.conv].title = IF GeneratesTitle(tx) THEN "g" ELSE @]
           ELSE conversations
    /\ convReply' = ConvOk("saveVoiceTranscript", tx.user, tx.conv, << >>,
                           Len(tx.transcript), FALSE)
    /\ UNCHANGED clock
    /\ UNCHANGED << voiceVars, codec, authVars >>

\* the statement the transaction executes next fails (an insert, the
\* timestamp update, the title update or COMMIT): ROLLBACK, and the error
\* goes to the caller
SaveFail ==
    /\ tx.state = "open"
    /\ tx' = Finished(tx, "rolledback")
    /\ messages' = rollback(messages, tx)
    /\ convReply' = SaveFailed(tx)
    /\ UNCHANGED << conversations, clock >>
    /\ UNCHANGED << voiceVars, codec, authVars >>

\* createConversation has stored an untitled conversation of account 1
InitConv ==
    /\ VoiceInit
    /\ traffic = "audio"
    /\ CodecIdle
    /\ AuthIdle
    /\ conversations = << [user_id |-> 1, title |-> "", updated_at |-> 0, alive |-> TRUE] >>
    /\ messages = << >>
    /\ clock = 0
    /\ tx = NoTx
    /\ convReply = NoConvReply

NextConv ==
    \/ \E userId \in Accounts, conversationId \in ConvIds :
          \/ GetConversationById(userId, conversationId)
          \/ VoiceCallUrl(userId, conversationId)
          \/ DeleteConversation(userId, conversationId)
          \/ \E aiOk \in BOOLEAN : SendTextMessage(userId, conversationId, aiOk)
          \/ \E entries \in Transcripts : SaveBegin(userId, conversationId, entries)
    \/ SaveInsert
    \/ SaveTouch
    \/ SaveFinish
    \/ SaveFail

SpecConv == InitConv /\ [][NextConv]_vars

\* -------------------------------------------------------------------- claims
\* the chunks whose playAudio is waiting for the output context to resume
AudioWaiters ==
    LET w == SelectSeq(resumeWaiters, LAMBDA x : x.kind = "audio")
    IN  [k \in 1..Len(w) |-> w[k].id]

\* chunk c is being rendered by the output device
Rendering(c) == srcState[c] = "playing" /\ audioContextRef = "running"

\* no interruption, no teardown of the output context and no chunk lost to a
\* failed resume or to a failure of the output device so far
Undisturbed ==
    nInterrupts = 0 /\ audioContextRef # "closed" /\ dropped = {} /\ failed = {}

C2_InterruptionDiscardsPending ==
    \A c \in discarded : c \notin Range(started)

\* C3: the chunk-end callback of a chunk stopped by a flush never advances the
\* queue, never clears the reference to a newer source and never changes the
\* playing flag.
C3_StaleChunkEndIsInert ==
    [][ \A c \in flushStopped :
            (srcState[c] = "stopped" /\ srcState'[c] = "done") =>
                /\ audioQueueRef' = audioQueueRef
                /\ currentSourceRef' = currentSourceRef
                /\ isPlayingRef' = isPlayingRef ]_vars

\* C4 as claimed: the transcript handed over at endCall is exactly the
\* sequence of user_transcript and agent_response events received until then.
C4_TranscriptIsEveryEvent ==
    \A k \in 1..Len(onTranscriptLog) :
        onTranscriptLog[k].transcript = onTranscriptLog[k].heard

\* C4 as amended: the transcript handed over at endCall is exactly the
\* sequence of the user_transcript and agent_response events received until
\* then that carry a non-empty text, in arrival order, none lost or doubled.
C4_TranscriptIsEveryNonEmptyEvent ==
    \A k \in 1..Len(onTranscriptLog) :
        onTranscriptLog[k].transcript =
            SelectSeq(onTranscriptLog[k].heard, LAMBDA e : e.content # "")

\* the end-to-end scenario: a user utterance, then the agent's reply, then
\* the user ends the call
C4_Witness ==
    /\ Len(onTranscriptLog) = 1
    /\ onTranscriptLog[1].heard = << [role |-> "user", content |-> "a"],
                                     [role |-> "assistant", content |-> "a"] >>
    /\ onTranscriptLog[1].transcript = onTranscriptLog[1].heard

\* C5: however often the mount effect runs, startCall is entered once and
\* one WebSocket is created: the second run is a no-op.
C5_OneChannel ==
    /\ Len(calls) <= 1
    /\ Len(sockets) <= 1

\* the effect ran twice and the one channel is connecting
C5_Witness ==
    /\ effectRuns = 2
    /\ sockets = << "CONNECTING" >>

\* a user_audio_chunk was sent at or after position n of the outbound log
AudioSentFrom(n) ==
    \E j \in 1..Len(sent) : j >= n /\ sent[j].type = "user_audio_chunk"

\* C6: once endCall has run on a connecting or open channel, the transcript
\* has been handed over, no channel is open, no duration timer runs, the
\* playback queue is empty and idle, and no user_audio_chunk is sent.
C6_EndCallTearsDown ==
    endWs \in {"CONNECTING", "OPEN"} =>
        /\ Len(onTranscriptLog) = 1
        /\ \A i \in 1..Len(sockets) : sockets[i] # "OPEN"
        /\ intervals = {}
        /\ audioQueueRef = << >>
        /\ ~isPlayingRef
        /\ ~AudioSentFrom(endMark)

\* C7: the step in which a channel closes leaves the session disconnected
\* and torn down: no duration timer, playback queue empty with no source
\* referenced or rendering, no capture graph connected, output context closed.
C7_CloseTearsDown ==
    [][ \A i \in 1..Len(sockets) :
            (sockets[i] # "CLOSED" /\ sockets'[i] = "CLOSED") =>
                /\ ~isConnected'
                /\ durationIntervalRef' = 0
                /\ intervals' = {}
                /\ audioQueueRef' = << >>
                /\ ~isPlayingRef'
                /\ currentSourceRef' = 0
                /\ \A c \in Chunks : ~Rendering(c)'
                /\ \A j \in 1..Len(capture') : capture'[j] # "active"
                /\ audioContextRef' = "closed" ]_vars

\* the channel was lost in mid-call, while a chunk was playing and another
\* was queued, without the user ending the call
C7_Witness ==
    /\ sockets = << "CLOSED" >>
    /\ endMark = 0
    /\ mounted = "yes"
    /\ capture = << "closed" >>
    /\ Len(started) = 1
    /\ nAudio = 2
    /\ flushStopped = {1}

\* C8: cleanup is idempotent: in every reachable state, running it twice
\* gives the state that running it once gives.
C8_CleanupIdempotent ==
    cleanup(cleanup(Cur)) = cleanup(Cur)

\* endCall ran cleanup on an open call with audio playing, and the close
\* event that followed ran it again
C8_Witness ==
    /\ endWs = "OPEN"
    /\ sockets = << "CLOSED" >>
    /\ flushStopped # {}
    /\ cleanup(Cur) = Cur

\* the pongs sent for ping k
PongsOf(k) ==
    { j \in 1..Len(sent) : sent[j].type = "pong" /\ sent[j].ping = k }

\* C9: each ping gets at most one pong; the pong carries the ping's
\* event_id, goes out no earlier than ping_ms after the ping, on the ping's
\* channel and only while that channel is open; a ping whose timeout found the
\* channel not open gets no pong, then or later.
C9_OnePongPerPing ==
    \A k \in 1..Len(pings) :
        /\ Cardinality(PongsOf(k)) = (IF pings[k].st = "sent" THEN 1 ELSE 0)
        /\ \A j \in PongsOf(k) :
              /\ sent[j].eid = pings[k].eid
              /\ sent[j].ws = pings[k].ws
              /\ sent[j].waited >= pings[k].ms
              /\ sent[j].rs = "OPEN"
        /\ pings[k].st = "skipped" => sockets[pings[k].ws] # "OPEN"

\* a ping with a positive delay was answered
C9_Witness ==
    \E k \in 1..Len(pings) :
        /\ pings[k].ms = 1
        /\ pings[k].st = "sent"
        /\ PongsOf(k) # {}

\* how often onEnd was called for the cause c
OnEndCount(c) ==
    Cardinality({ j \in 1..Len(onEndLog) : onEndLog[j] = c })

\* C10: when the microphone is denied, no channel is ever created, no timer
\* or capture is started and nothing is sent; the failure is reported to the
\* caller by one call of onEnd, and the attempt is not repeated.
C10_MicDeniedIsFatal ==
    (\E i \in 1..Len(calls) : calls[i] = "failed") =>
        /\ sockets = << >>
        /\ capture = << >>
        /\ intervals = {}
        /\ durationIntervalRef = 0
        /\ sent = << >>
        /\ OnEndCount("startFailed") = 1
        /\ Len(calls) = 1

\* the microphone was denied and the overlay has been dismissed since
C10_Witness ==
    /\ calls = << "failed" >>
    /\ onEndLog = << "startFailed" >>
    /\ mounted = "gone"

\* the messages sent on socket i, in the order sent
SentOn(i) == SelectSeq(sent, LAMBDA m : m.ws = i)

\* socket i has been open at some time: ws.onopen ran for it
Opened(i) == capture[i] # "none"

\* C11: on every channel that has opened, exactly one initiation message
\* has been sent and it is the first message sent on it, before any
\* user_audio_chunk or pong; on a channel that has not opened nothing has been
\* sent; and a duration timer or a capture graph exists only for a channel
\* that has opened.
C11_InitiationFirst ==
    /\ \A i \in 1..Len(sockets) :
          /\ Opened(i) <=> sockets[i] # "CONNECTING" /\ SentOn(i) # << >>
          /\ Opened(i) =>
                /\ SentOn(i)[1].type = "conversation_initiation_client_data"
                /\ \A j \in 2..Len(SentOn(i)) :
                      SentOn(i)[j].type \in {"user_audio_chunk", "pong"}
          /\ ~Opened(i) => SentOn(i) = << >>
    /\ \A m \in Range(sent) : m.ws \in 1..Len(sockets)
    /\ intervals \subseteq { i \in 1..Len(sockets) : Opened(i) }
    /\ durationIntervalRef # 0 => Opened(durationIntervalRef)
    /\ mediaRecorderRef # 0 => Opened(mediaRecorderRef)

\* the channel opened, the initiation went out, then a capture block
C11_Witness ==
    /\ Len(sent) = 2
    /\ sent[1].type = "conversation_initiation_client_data"
    /\ sent[2].type = "user_audio_chunk"
    /\ intervals = {1}

\* how many user_audio_chunk messages have been sent
NAudioSent ==
    Cardinality({ j \in 1..Len(sent) : sent[j].type = "user_audio_chunk" })

\* C12: a step that delivers a capture block sends exactly one
\* user_audio_chunk if the channel of the capture graph is open and nothing
\* if it is not, and leaves the capture graph as it was; no other step sends
\* a user_audio_chunk, so a block dropped is never sent later.
C12_BlockSentIffOpen ==
    [][ /\ nFrames' = nFrames => NAudioSent' = NAudioSent
        /\ nFrames' # nFrames =>
              /\ nFrames' = nFrames + 1
              /\ capture' = capture
              /\ \E i \in 1..Len(capture) :
                    /\ capture[i] # "none"
                    /\ IF sockets[i] = "OPEN"
                       THEN /\ Len(sent') = Len(sent) + 1
                            /\ NAudioSent' = NAudioSent + 1
                            /\ sent'[Len(sent')].ws = i
                       ELSE sent' = sent ]_vars

\* a block that was in flight when the channel closed has been dropped
C12_Witness ==
    /\ nFrames = 1
    /\ NAudioSent = 0
    /\ sockets = << "CLOSED" >>
    /\ capture = << "closed" >>

\* C13: while nothing disturbs playback and no chunk waits for the context,
\* the queue holds exactly the chunks received and not yet started, and
\* playback is idle exactly when every chunk received has ended.  So when a
\* second audio event arrives while the first chunk plays the queue length
\* is 1, and after both chunk-end events the queue is empty and playback idle.
C13_EnqueueStartsWhenIdle ==
    (Undisturbed /\ AudioWaiters = << >> /\ audioContextRef = "running") =>
        /\ Len(audioQueueRef) = nAudio - Len(started)
        /\ isPlayingRef <=> (\E c \in 1..nAudio : srcState[c] # "done")
        /\ (nAudio = 2 /\ srcState[1] = "playing") =>
              audioQueueRef = << 2 >> /\ currentSourceRef = 1
        /\ (nAudio = 2 /\ srcState[1] = "done" /\ srcState[2] = "done") =>
              /\ audioQueueRef = << >>
              /\ ~isPlayingRef
              /\ ~isSpeaking
              /\ currentSourceRef = 0

\* two chunks arrived back to back and both have ended
C13_Witness ==
    /\ Undisturbed
    /\ nAudio = 2
    /\ started = << 1, 2 >>
    /\ srcState[1] = "done" /\ srcState[2] = "done"
    /\ audioQueueRef = << >>
    /\ ~isPlayingRef

\* C14: the step in which an open channel closes, the user not having ended
\* the call and the component still shown, reports the end of the call to the
\* parent: onEnd is called and the overlay is dismissed.
C14_CloseEndsCall ==
    [][ \A i \in 1..Len(sockets) :
            ( /\ sockets[i] = "OPEN" /\ sockets'[i] = "CLOSED"
              /\ endMark = 0 /\ mounted = "yes" /\ ~dismissed ) =>
                /\ Len(onEndLog') = Len(onEndLog) + 1
                /\ dismissed' ]_vars

\* C15: a failure of the output device while a chunk is started never leaves
\* playback marked as playing with nothing to move it on: whenever the
\* playing flag is set on a running context, a chunk is rendering or the
\* chunk-end event of a stopped source is still to come, and whenever chunks
\* are queued the flag is set, so the queue advances past the failed chunk.
C15_PlaybackErrorContained ==
    (failed # {} /\ audioContextRef = "running") =>
        /\ isPlayingRef =>
              \E c \in Chunks : srcState[c] \in {"playing", "stopped"}
        /\ audioQueueRef # << >> => isPlayingRef

\* the state of the pipeline a discarded frame must leave alone: transcript,
\* playback queue and sources, connection, session resources, and what the
\* parent was told
Pipeline ==
    << transcript, audioQueueRef, isPlayingRef, isSpeaking, currentSourceRef,
       srcState, started, resumeWaiters, nAudio,
       websocketRef, sockets, isConnected,
       durationIntervalRef, intervals, mediaRecorderRef, capture,
       audioContextRef, audioContextState,
       onTranscriptLog, onEndLog, dismissed >>

C17_IgnoredEventsChangeNothing ==
    [][ nIgnored' # nIgnored =>
            [Cur EXCEPT !.nIgnored = 0]' = [Cur EXCEPT !.nIgnored = 0] ]_vars

\* such an event came while a chunk was playing and another was queued, and
\* both are still there
C17_Witness ==
    /\ nIgnored >= 1
    /\ nAudio = 2
    /\ srcState[1] = "playing"
    /\ audioQueueRef = << 2 >>
    /\ isPlayingRef

\* C18: no chunk received while the output context was suspended is lost:
\* once the context runs, and with no interruption and no device failure,
\* every chunk received so far has been started or is queued, in arrival
\* order.
C18_SuspendedChunksKept ==
    (audioContextRef = "running" /\ nInterrupts = 0 /\ failed = {}) =>
        started \o audioQueueRef = [k \in 1..nAudio |-> k]

\* C19: once a channel exists no step creates another channel or enters
\* startCall again, and a channel that has closed stays closed: there is no
\* reconnect, whether the channel failed to open, was lost or was closed.
C19_NoReconnect ==
    [][ sockets # << >> =>
            /\ Len(sockets') = Len(sockets)
            /\ Len(calls') = Len(calls)
            /\ \A i \in 1..Len(sockets) :
                  sockets[i] = "CLOSED" => sockets'[i] = "CLOSED" ]_vars

\* the channel failed before it ever opened, the component is still shown
\* and nothing has been started again
C19_Witness ==
    /\ sockets = << "CLOSED" >>
    /\ capture = << "none" >>
    /\ calls = << "done" >>
    /\ mounted = "yes"
    /\ ~dismissed
    /\ sent = << >>

\* cleanup has run to end the session: from endCall, from ws.onclose, or from
\* the destructor of the mount effect when the component was removed
TornDown ==
    \/ endMark # 0
    \/ \E i \in 1..Len(sockets) : sockets[i] = "CLOSED"
    \/ mounted = "gone" /\ cleanupRegistered

\* C20: after teardown no step enqueues a chunk, starts playback, appends to
\* the transcript or sends a message, and the playback queue stays empty and
\* idle.
C20_NoUseAfterTeardown ==
    [][ TornDown =>
            /\ audioQueueRef' = << >>
            /\ ~isPlayingRef'
            /\ started' = started
            /\ transcript' = transcript
            /\ sent' = sent ]_vars

\* C21: a sample in [-1, 1] that was encoded and decoded differs from the
\* original by at most 1/32768.
C21_RoundTripWithinOneStep ==
    (codec.stage = "decoded" /\ Abs(codec.inputData.num) <= codec.inputData.den) =>
        Within(codec.floatData, codec.inputData, 32768)

\* the chunks the output device is rendering
RenderingNow == { c \in Chunks : Rendering(c) }

\* C24: while the output context runs and the device has not failed, the
\* playback queue is either idle (flag false, queue empty, nothing
\* rendering) or playing (flag true, exactly one chunk rendering): never two
\* chunks rendering, never idle while a chunk renders.
C24_IdleOrPlayingOne ==
    (audioContextRef = "running" /\ failed = {}) =>
        /\ Cardinality(RenderingNow) <= 1
        /\ isPlayingRef <=> RenderingNow # {}
        /\ ~isPlayingRef => audioQueueRef = << >>

\* a chunk-end event is still to come: a chunk is rendering, or the source of
\* a chunk was stopped and its `ended` event has not fired yet
EndPending ==
    \E c \in Chunks : Rendering(c) \/ srcState[c] = "stopped"

\* C25: the queue is never left non-empty with the playing flag set and no
\* chunk-end event to come, the state from which no queued chunk would ever
\* be started; so every queued chunk is started or discarded.
C25_QueueNeverStuck ==
    (audioQueueRef # << >> /\ isPlayingRef) => EndPending

\* endCall has run, or the component was removed and the destructor of its
\* mount effect ran cleanup
EndedByUser ==
    endMark # 0 \/ (mounted = "gone" /\ cleanupRegistered)

\* C26: once endCall or the unmount has torn the call down, no step creates
\* a WebSocket; and when the teardown came before startCall had created one
\* (it was still waiting for the microphone or for resume()), no timer is
\* ever started, no capture graph is built and nothing is sent.
C26_NoChannelAfterTeardown ==
    [][ EndedByUser =>
            /\ Len(sockets') = Len(sockets)
            /\ sockets = << >> =>
                  intervals' = {} /\ capture' = << >> /\ sent' = << >> ]_vars

\* C27: when the mount effect has run twice (Strict Mode), one call was
\* started, and the step that finally removes the component tears it down:
\* afterwards no channel is open, no duration timer runs and no capture
\* graph is active.
C27_StrictModeUnmountTearsDown ==
    [][ (effectRuns = 2 /\ mounted = "yes" /\ mounted' = "gone") =>
            /\ Len(calls') <= 1
            /\ \A i \in 1..Len(sockets') : sockets'[i] # "OPEN"
            /\ intervals' = {}
            /\ \A i \in 1..Len(capture') : capture'[i] # "active" ]_vars

\* C22: register with an address for which a user already exists (compared
\* after lower-casing) is answered with the AppError CONFLICT /
\* USER_ALREADY_EXISTS, issues no token and leaves the users table as it
\* was; and no two rows of the table share a lower-cased address.
DistinctEmails(us) ==
    \A i, j \in 1..Len(us) :
        i # j => toLowerCase(us[i].email) # toLowerCase(us[j].email)

C22_RegisterExistingRejected ==
    [][ /\ DistinctEmails(users')
        /\ (authReply' # authReply /\ authReply'.op = "register" /\ authReply'.existed) =>
               /\ authReply'.status = "CONFLICT"
               /\ authReply'.code = "USER_ALREADY_EXISTS"
               /\ authReply'.token = NoToken
               /\ users' = users ]_vars

\* a second registration of an address, written in capitals this time, has
\* been rejected after the first one created its user
C22_Witness ==
    /\ authReply.op = "register"
    /\ authReply.email = "A"
    /\ authReply.existed
    /\ authReply.code = "USER_ALREADY_EXISTS"
    /\ \E i \in 1..Len(users) : users[i].email = "a" /\ users[i].auth_provider = "local"

\* C23: login with an address that matches no local user, or with a password
\* that is not the one the stored hash was made from, is answered with the
\* AppError UNAUTHORIZED / INVALID_CREDENTIALS and no token; getUserById with
\* an id of no row is answered with USER_NOT_FOUND; neither call changes the
\* users table.
Credentials(us, email, password) ==
    \E i \in 1..Len(us) :
        /\ us[i].auth_provider = "local"
        /\ us[i].email = toLowerCase(email)
        /\ us[i].password_hash = bcryptHash(password)

C23_BadLoginAndUnknownIdRejected ==
    [][ /\ (authReply' # authReply /\ authReply'.op = "login"
              /\ ~Credentials(users, authReply'.email, authReply'.password)) =>
               /\ authReply'.status = "UNAUTHORIZED"
               /\ authReply'.code = "INVALID_CREDENTIALS"
               /\ authReply'.token = NoToken
        /\ (authReply' # authReply /\ authReply'.op = "getUserById"
              /\ authReply'.id \notin 1..Len(users)) =>
               /\ authReply'.code = "USER_NOT_FOUND"
               /\ authReply'.token = NoToken
        /\ (authReply' # authReply /\ authReply'.op \in {"login", "getUserById"}) =>
               users' = users ]_vars

\* a registered local user has been refused with a wrong password
C23_Witness ==
    /\ authReply.op = "login"
    /\ authReply.code = "INVALID_CREDENTIALS"
    /\ \E i \in 1..Len(users) :
          /\ i > 1
          /\ users[i].auth_provider = "local"
          /\ users[i].email = toLowerCase(authReply.email)
          /\ users[i].password_hash # bcryptHash(authReply.password)

\* C28: when getConversationById answers for a conversation after
\* saveVoiceTranscript has committed a transcript to it, the transcript's
\* messages come in the order they were inserted in, and after the
\* messages with an earlier created_at.
FromTx(rows, at) == SelectSeq(rows, LAMBDA m : m.created_at = at)

C28_TranscriptOrderKept ==
    [][ (/\ convReply' # convReply
         /\ convReply'.op = "getConversationById"
         /\ convReply'.status = "ok"
         /\ tx.state = "committed"
         /\ tx.conv = convReply'.conv) =>
            LET rows == convReply'.messages
            IN  /\ FromTx(rows, tx.at) = FromTx(Stored(messages, tx.conv), tx.at)
                /\ \A i, j \in 1..Len(rows) :
                      (rows[i].created_at < tx.at /\ rows[j].created_at = tx.at) => i < j ]_vars

\* C29: a saveVoiceTranscript transaction that ends in an error leaves the
\* stored messages and the conversation as they were; one that succeeds
\* stores exactly the rows of its transcript, one per entry and in order,
\* and returns the transcript's length as messageCount.
C29_TranscriptAllOrNothing ==
    [][ /\ (tx.state = "open" /\ tx'.state = "rolledback") =>
               /\ messages' = messages
               /\ conversations' = conversations
               /\ convReply'.op = "saveVoiceTranscript"
               /\ convReply'.status # "ok"
        /\ (tx.state = "open" /\ tx'.state = "committed") =>
               /\ messages' = messages \o
                      [i \in 1..Len(tx.transcript) |-> Row(tx.conv, tx.transcript[i], tx.at)]
               /\ convReply'.op = "saveVoiceTranscript"
               /\ convReply'.status = "ok"
               /\ convReply'.messageCount = Len(tx.transcript) ]_vars

\* a transaction that had inserted a message was rolled back, and no row of
\* it is stored
C29_Witness ==
    /\ tx.state = "rolledback"
    /\ tx.done >= 1
    /\ convReply.op = "saveVoiceTranscript"
    /\ convReply.status = "DatabaseError"
    /\ FromTx(messages, tx.at) = << >>
    /\ conversations[tx.conv].alive

\* C30: a request for an existing conversation by an account that does not
\* own it is answered with NOT_FOUND / CONVERSATION_NOT_FOUND, carries no
\* message and no signed URL, and changes neither table.
ConvOps ==
    {"getConversationById", "sendTextMessage", "saveVoiceTranscript",
     "deleteConversation", "voiceCall"}

Exists(cs, conversationId) ==
    conversationId \in 1..Len(cs) /\ cs[conversationId].alive

C30_NonOwnerRejected ==
    [][ (/\ convReply' # convReply
         /\ convReply'.op \in ConvOps
         /\ Exists(conversations, convReply'.conv)
         /\ conversations[convReply'.conv].user_id # convReply'.user) =>
            /\ convReply'.status = "NOT_FOUND"
            /\ convReply'.code = "CONVERSATION_NOT_FOUND"
            /\ convReply'.messages = << >>
            /\ ~convReply'.signedUrl
            /\ messages' = messages
            /\ conversations' = conversations ]_vars

\* the other account has asked for a conversation that holds messages, and
\* was refused
C30_Witness ==
    /\ convReply.op = "getConversationById"
    /\ convReply.code = "CONVERSATION_NOT_FOUND"
    /\ Exists(conversations, convReply.conv)
    /\ conversations[convReply.conv].user_id # convReply.user
    /\ Stored(messages, convReply.conv) # << >>


====
